---- MODULE Spec2Model ----
(***************************************************************************)
(* DevSync backend: the project-scoped role/permission engine.             *)
(*                                                                         *)
(* One project is modelled.  The store holds the project owner, the        *)
(* project members, the roles of the project (rank, tri-state permission   *)
(* overrides, MemberRole rows) and the permission catalog.  The three TTL  *)
(* caches of roles/services/permissions.py sit in front of the store.      *)
(* Every request handler is one action; read requests record what they     *)
(* returned in the variable last.                                          *)
(*                                                                         *)
(* Time is counted in units of five minutes.                               *)
(***************************************************************************)
EXTENDS Integers, Sequences, FiniteSets, TLC

\* ---------------------------------------------------------------- bounds
NumUsers == 2
NumThreads == 2
MaxRoles == 3
MaxRank == 2
MaxTime == 3
MaxStaleTime == 17
MaxMutations == 1
StoreMaxRank == 3
MaxOverrides == 2

\* ------------------------------------------------------- program constants
PERMS_TTL == 1
ROLES_TTL == 3
CHECK_TTL == 12
EveryoneId == 1
EveryoneRank == 0

PROJECT_MANAGE == "project_manage"
ROLE_MANAGE == "role_manage"
Perms == {PROJECT_MANAGE, ROLE_MANAGE}

Users == 1..NumUsers
RoleIds == 1..MaxRoles
RankValues == 1..MaxRank
Threads == 1..NumThreads

\* A tri-state RolePermission.value: True, False or None.
Allow == "true"
Deny == "false"
Null == "null"
Tri == {Allow, Deny, Null}

\* A codename that is no key of a permission map.
Absent == "absent"

\* No batch update has taken a grant away.
NoRevocation == -1

VARIABLES owner, projMembers, defaultValue, nextRoleId, roles, roleRank,
          rolePerms, memberRoles, mutations,
          now, rolesCache, permCache, checkCache, last, changedWhileLive,
          catalog, staticCatalog, formerOwners, cacheDown, horizon, revokedAt,
          rpRows, isPublic,
          checkerSource, calls

store == <<owner, projMembers, defaultValue, nextRoleId, roles, roleRank,
           rolePerms, memberRoles, mutations, catalog, formerOwners, rpRows,
           isPublic>>
caches == <<rolesCache, permCache, checkCache>>
wrapperState == <<checkerSource, calls>>
vars == <<owner, projMembers, defaultValue, nextRoleId, roles, roleRank,
          rolePerms, memberRoles, mutations, now, rolesCache, permCache,
          checkCache, last, changedWhileLive, catalog, staticCatalog,
          formerOwners, cacheDown, horizon,
          revokedAt, rpRows, isPublic, checkerSource, calls>>

\* ------------------------------------------------------------ the store
NoPerms == [p \in Perms |-> Null]

IsEveryone(r) == r = EveryoneId

\* The RolePermission rows a store with these values holds: rpRows is the
\* set of (role, codename) pairs that have a row; a pair without a row has
\* the value Null in rolePerms.
StoredRows == {x \in RoleIds \X Perms : rolePerms[x[1]][x[2]] # Null}

\* A Role object as a query returns it, with its prefetched permissions.
RoleSnapshot(r) ==
    [id |-> r, rank |-> roleRank[r], is_everyone |-> IsEveryone(r),
     perms |-> rolePerms[r]]

\* Role.objects.filter(project_id).filter(Q(members__user_id) | Q(is_everyone)).
UserRoleIds(u) == {r \in roles : <<r, u>> \in memberRoles \/ IsEveryone(r)}

\* order_by('-rank'): every ordering of S by rank descending; the database
\* is free to return equal ranks in any order.
RankDescOrders(S) ==
    {s \in [1..Cardinality(S) -> S] :
        /\ \A i, j \in 1..Cardinality(S) : i # j => s[i] # s[j]
        /\ \A i, j \in 1..Cardinality(S) : i < j => roleRank[s[i]] >= roleRank[s[j]]}

QueryUserRoles(u, ord) == [i \in 1..Len(ord) |-> RoleSnapshot(ord[i])]

\* ----------------------------------------------------------- the caches
Min(a, b) == IF a < b THEN a ELSE b

\* The expiry instant of an entry stored now; instants beyond the horizon
\* are all "never within the horizon".
Expiry(ttl) == Min(now + ttl, horizon + 1)

NoEntry(v) == [val |-> v, exp |-> 0]

\* cacheDown: the cache backend is unreachable.  A get that fails finds
\* nothing and a set that fails stores nothing.
CacheHit(entry) == ~cacheDown /\ now < entry.exp
CacheSet(v, ttl) == [val |-> v, exp |-> Expiry(ttl)]
CacheStore(entry, v, ttl) == IF cacheDown THEN entry ELSE CacheSet(v, ttl)

\* The required-permission sets that key the checkResult cache.
ReqSets == {{ROLE_MANAGE}}

\* ---------------------------------------------------------- the catalog
\* catalog is the Permission table.  staticCatalog is the list the
\* permission manager keeps for the life of the process once it has loaded
\* it (StaticPermissionManager.get_queryset); nothing resets it.
NotLoaded == [loaded |-> FALSE, perms |-> {}]

\* Permission.objects.cached()
CatalogRead == IF staticCatalog.loaded THEN staticCatalog.perms ELSE catalog

StaticAfterRead == [loaded |-> TRUE, perms |-> CatalogRead]

\* ---------------------------------------------------------- the resolver
\* {p.codename: None for p in permissions}.  A permission map is kept as a
\* function on Perms; a codename outside the catalog read is Absent.  (No
\* role sets, and no guard requires, a codename the catalog read lacks.)
InitialMap == [p \in Perms |-> IF p \in CatalogRead THEN Null ELSE Absent]

\* _apply_role_permissions: first non-null value wins.
ApplyRolePermissions(role, m) ==
    [p \in Perms |-> IF role.perms[p] # Null /\ m[p] = Null THEN role.perms[p] ELSE m[p]]

\* _apply_default_permissions
ApplyDefaultPermissions(m) ==
    [p \in Perms |-> IF m[p] = Null THEN defaultValue[p] ELSE m[p]]

\* The loop of _get_member_permissions over roles[i..], with its break.
RECURSIVE ApplyRoles(_, _, _)
ApplyRoles(rs, i, m) ==
    IF i > Len(rs) THEN m
    ELSE LET m1 == ApplyRolePermissions(rs[i], m)
         IN IF rs[i].is_everyone THEN ApplyDefaultPermissions(m1)
            ELSE ApplyRoles(rs, i + 1, m1)

ComputePermissions(rs) == ApplyRoles(rs, 1, InitialMap)

AllTrue == [p \in Perms |-> IF p \in CatalogRead THEN Allow ELSE Absent]

\* A fetch that forgets to query the store when the cache misses.
FetchUserRolesNoQuery(u, ord) == rolesCache[u].val

\* _fetch_user_roles_with_permissions: the list returned, given the order
\* the query would return.
FetchUserRoles(u, ord) ==
    IF CacheHit(rolesCache[u]) THEN rolesCache[u].val ELSE QueryUserRoles(u, ord)

RolesCacheAfterFetch(u, ord) ==
    IF CacheHit(rolesCache[u]) THEN rolesCache
    ELSE [rolesCache EXCEPT ![u] =
            CacheStore(rolesCache[u], QueryUserRoles(u, ord), ROLES_TTL)]

\* _get_member_permissions: the map returned for user u with roles rs.
GetMemberPermissions(u, rs) ==
    IF owner = u THEN AllTrue
    ELSE IF CacheHit(permCache[u]) THEN permCache[u].val
    ELSE ComputePermissions(rs)

\* A resolver that computes the map and never stores it.
PermCacheAfterGetNoStore(u, rs) == permCache

\* A resolver that caches the owner's all-true map like any other.
PermCacheAfterGetOwnerCached(u, rs) ==
    IF CacheHit(permCache[u]) THEN permCache
    ELSE [permCache EXCEPT ![u] =
            CacheStore(permCache[u],
                       IF owner = u THEN AllTrue ELSE ComputePermissions(rs), PERMS_TTL)]

PermCacheAfterGet(u, rs) ==
    IF owner = u \/ CacheHit(permCache[u]) THEN permCache
    ELSE [permCache EXCEPT ![u] =
            CacheStore(permCache[u], ComputePermissions(rs), PERMS_TTL)]

\* _has_any_permission
HasAnyPermission(m, ps) == \E p \in ps : m[p] = Allow

\* ------------------------------------------------------------- last call
\* What the latest read request was and returned: hit, permHit and rolesHit
\* are what the three cache lookups answered, map is the permission map the
\* request resolved, roles the role list the request fetched.
\* pending is history: whether the caller's roles were
\* changed while the caller's permissionMap entry was live and the caller
\* has not resolved past that entry since (changedWhileLive keeps the set).
\* prevUser and prevMap are history too: the caller and the map of the
\* resolve request answered immediately before this one, nothing having
\* happened in between (prevUser is 0 when there is none).
\* For a batch update of role permissions: role, request (the body),
\* updated (the codenames of the rows returned) and repeat (history: the
\* request before this one was the same batch update).
NoCall ==
    [op |-> "none", user |-> 0, owner |-> 0, cfg |-> 0, target |-> 0,
     srcRank |-> 0, perm |-> PROJECT_MANAGE, outcome |-> "none",
     hit |-> "n/a", permHit |-> "n/a", rolesHit |-> "n/a", pending |-> FALSE,
     map |-> NoPerms, roles |-> <<>>, prevUser |-> 0, prevMap |-> NoPerms,
     role |-> 0, request |-> [p \in Perms |-> Absent], updated |-> {},
     repeat |-> FALSE, method |-> "GET", projectPk |-> 0, pk |-> 0]

Lookup(entry) == IF CacheHit(entry) THEN "hit" ELSE "miss"

\* ---------------------------------------------- calls being served
\* checkerSource is the _source field of the checker instance a decorated
\* operation was given when it was decorated; every call of the operation
\* uses that one instance.  calls[t] is the call thread t is serving: its
\* position in the wrapper (pc), the caller, the source its own input
\* holds, and, once checked, the source the checker used and the outcome;
\* ran tells that the wrapped view method has been invoked.
Ellipsis == -1

NoRequest == [pc |-> "idle", user |-> 0, input |-> Ellipsis, used |-> Ellipsis,
              outcome |-> "none", ran |-> FALSE]

\* ------------------------------------------------------------------ Init
Init ==
    /\ owner = 1
    /\ projMembers = {1}
    /\ defaultValue \in [Perms -> {Allow, Deny}]
    /\ nextRoleId = EveryoneId + 1
    /\ roles = {EveryoneId}
    /\ roleRank = [r \in RoleIds |-> EveryoneRank]
    /\ rolePerms = [r \in RoleIds |-> NoPerms]
    /\ memberRoles = {}
    /\ mutations = 0
    /\ now = 0
    /\ rolesCache = [u \in Users |-> NoEntry(<<>>)]
    /\ permCache = [u \in Users |-> NoEntry(NoPerms)]
    /\ checkCache = [u \in Users |-> [s \in ReqSets |-> NoEntry(Deny)]]
    /\ last = NoCall
    /\ changedWhileLive = {}
    /\ catalog = Perms
    /\ staticCatalog = NotLoaded
    /\ formerOwners = {}
    /\ cacheDown = FALSE
    /\ horizon = MaxTime
    /\ revokedAt = NoRevocation
    /\ rpRows = StoredRows
    /\ isPublic = TRUE
    /\ checkerSource = Ellipsis
    /\ calls = [t \in Threads |-> NoRequest]

\* --------------------------------------------------------- read requests
\* permissions.get_member_permissions(project, u)
Resolve(u) ==
    /\ last.op = "none"
    /\ \E ord \in RankDescOrders(UserRoleIds(u)) :
        LET rs == FetchUserRoles(u, ord)
        IN /\ rolesCache' = RolesCacheAfterFetch(u, ord)
           /\ permCache' = PermCacheAfterGet(u, rs)
           /\ last' = [NoCall EXCEPT !.op = "resolve", !.user = u, !.owner = owner,
                                     !.outcome = "map",
                                     !.permHit = IF owner = u THEN "n/a"
                                                 ELSE Lookup(permCache[u]),
                                     !.rolesHit = Lookup(rolesCache[u]),
                                     !.pending = u \in changedWhileLive,
                                     !.map = GetMemberPermissions(u, rs),
                                     !.roles = rs,
                                     !.prevUser = last.prevUser,
                                     !.prevMap = last.prevMap]
           /\ changedWhileLive' = IF owner # u /\ ~CacheHit(permCache[u])
                                  THEN changedWhileLive \ {u} ELSE changedWhileLive
           /\ staticCatalog' = StaticAfterRead
           /\ UNCHANGED <<cacheDown, horizon, revokedAt, wrapperState, store, now, checkCache>>

\* ---- roles/services/services.py: the resolver that uses no cache ----
\* _get_user_roles_with_permissions: the same roles, distinct, by rank
\* descending, each with its RolePermission rows prefetched.
GetUserRolesWithPermissions(u, ord) == [i \in 1..Len(ord) |-> RoleSnapshot(ord[i])]

\* _initialize_permissions_map
InitializePermissionsMap == [p \in Perms |-> IF p \in CatalogRead THEN Null ELSE Absent]

\* services._apply_role_permissions
ApplyPrefetchedPermissions(role, m) ==
    [p \in Perms |-> IF role.perms[p] # Null /\ m[p] = Null THEN role.perms[p] ELSE m[p]]

\* _fill_missing_with_defaults
FillMissingWithDefaults(m) ==
    [p \in Perms |-> IF m[p] = Null THEN defaultValue[p] ELSE m[p]]

\* _process_roles_permissions
RECURSIVE ProcessRolesPermissions(_, _, _)
ProcessRolesPermissions(rs, i, m) ==
    IF i > Len(rs) THEN m
    ELSE LET m1 == ApplyPrefetchedPermissions(rs[i], m)
         IN IF rs[i].is_everyone THEN FillMissingWithDefaults(m1)
            ELSE ProcessRolesPermissions(rs, i + 1, m1)

\* services.get_member_permissions(project_id, u)
UncachedPermissions(u, ord) ==
    ProcessRolesPermissions(GetUserRolesWithPermissions(u, ord), 1,
                            InitializePermissionsMap)

\* A has_permission that forgets the owner.
HasPermissionResultNoOwner(u, perm, ord) ==
    \/ UncachedPermissions(u, ord)[perm] = Allow
    \/ UncachedPermissions(u, ord)[PROJECT_MANAGE] = Allow

\* services.has_permission(project_id, u, perm)
HasPermissionResult(u, perm, ord) ==
    \/ UncachedPermissions(u, ord)[perm] = Allow
    \/ UncachedPermissions(u, ord)[PROJECT_MANAGE] = Allow
    \/ owner = u

HasPermission(u, perm) ==
    /\ last.op = "none"
    /\ \E ord \in RankDescOrders(UserRoleIds(u)) :
        /\ last' = [NoCall EXCEPT !.op = "has_permission", !.user = u,
                                  !.owner = owner, !.perm = perm,
                                  !.outcome = IF HasPermissionResult(u, perm, ord)
                                              THEN "true" ELSE "false",
                                  !.map = UncachedPermissions(u, ord)]
        /\ staticCatalog' = StaticAfterRead
        /\ UNCHANGED <<cacheDown, horizon, revokedAt, wrapperState, store, now, caches, changedWhileLive>>

\* ------------------------------------------------------------- the guard
\* The decorated operations: the arguments require_permissions is given.
GuardConfigs ==
    << [perms |-> {ROLE_MANAGE}, only_owner |-> FALSE, checkers |-> <<>>],
       [perms |-> {}, only_owner |-> TRUE, checkers |-> <<>>],
       [perms |-> {ROLE_MANAGE}, only_owner |-> FALSE,
        checkers |-> <<"creator_bypass", "rank">>],
       [perms |-> {}, only_owner |-> FALSE, checkers |-> <<"not_owner_target">>],
       [perms |-> {}, only_owner |-> FALSE, checkers |-> <<"rank">>],
       [perms |-> {}, only_owner |-> FALSE, checkers |-> <<"compare_users_rank">>] >>

Configs == 1..Len(GuardConfigs)

UsesChecker(c, kind) ==
    \E i \in 1..Len(GuardConfigs[c].checkers) : GuardConfigs[c].checkers[i] = kind

\* BaseParamChecker._get_user_rank; max() of an empty list raises.
RECURSIVE MaxRankFrom(_, _)
MaxRankFrom(rs, i) ==
    IF i = Len(rs) THEN rs[i].rank
    ELSE LET rest == MaxRankFrom(rs, i + 1)
         IN IF rs[i].rank >= rest THEN rs[i].rank ELSE rest

GetUserRank(rs) == MaxRankFrom(rs, 1)

\* A RankChecker that accepts an equal rank.
RankCheckNotStrict(u, rs, src) ==
    IF Len(rs) = 0 THEN "error"
    ELSE IF GetUserRank(rs) >= src THEN "true" ELSE "false"

\* RankChecker._check
RankCheck(u, rs, src) ==
    IF Len(rs) = 0 THEN "error"
    ELSE IF GetUserRank(rs) > src THEN "true" ELSE "false"

\* NotOwnerTargetChecker._check
NotOwnerTargetCheck(u, rs, src) == IF owner # u THEN "true" ELSE "false"

\* CreatorBypassChecker._check
CreatorBypassCheck(u, rs, src) == IF u = src THEN "true" ELSE "false"

\* The ranks of the roles explicitly assigned to user v, as the store has
\* them now.
AssignedRanks(v) == {roleRank[r] : r \in {x \in roles : <<x, v>> \in memberRoles}}

SetMax(S) == CHOOSE x \in S : \A y \in S : y <= x

\* CompareUsersRankChecker._check; first() of an empty query is None and
\* None.rank raises, as max() of an empty role list does.
CompareUsersRankCheck(u, rs, src) ==
    IF owner = u THEN "true"
    ELSE IF owner = src THEN "false"
    ELSE IF AssignedRanks(src) = {} \/ Len(rs) = 0 THEN "error"
    ELSE IF GetUserRank(rs) > SetMax(AssignedRanks(src)) THEN "true" ELSE "false"

\* BaseParamChecker.__call__ on the source load_source stored.
CheckerCall(kind, u, rs, target, srcRank) ==
    CASE kind = "rank" -> RankCheck(u, rs, srcRank)
      [] kind = "compare_users_rank" -> CompareUsersRankCheck(u, rs, target)
      [] kind = "not_owner_target" -> NotOwnerTargetCheck(u, rs, target)
      [] kind = "creator_bypass" -> CreatorBypassCheck(u, rs, target)

\* The loop over the checkers at the end of check_permissions.
RECURSIVE RunCheckers(_, _, _, _, _, _)
RunCheckers(chain, i, u, rs, target, srcRank) ==
    IF i > Len(chain) THEN "allowed"
    ELSE LET r == CheckerCall(chain[i], u, rs, target, srcRank)
         IN IF r = "error" THEN "error"
            ELSE IF r = "false" THEN "denied"
            ELSE RunCheckers(chain, i + 1, u, rs, target, srcRank)

\* _verify_permissions: TRUE when it returns, FALSE when it raises.
VerifyPermissions(u, rs, ps) == HasAnyPermission(GetMemberPermissions(u, rs), ps)

\* The permission gate of check_permissions (lines 129-143) for a non-owner:
\* "pass" or "deny".
GateOutcome(u, rs, req) ==
    IF req = {} THEN "pass"
    ELSE IF ~CacheHit(checkCache[u][req]) THEN "pass"
    ELSE IF checkCache[u][req].val = Allow THEN "pass" ELSE "deny"

\* A gate that verifies the required permissions without PROJECT_MANAGE.
CheckCacheAfterGateNoManage(u, rs, req) ==
    IF req = {} \/ CacheHit(checkCache[u][req]) THEN checkCache
    ELSE [checkCache EXCEPT ![u][req] =
            CacheStore(checkCache[u][req],
                       IF VerifyPermissions(u, rs, req) THEN Allow ELSE Deny, CHECK_TTL)]

CheckCacheAfterGate(u, rs, req) ==
    IF req = {} \/ CacheHit(checkCache[u][req]) THEN checkCache
    ELSE [checkCache EXCEPT ![u][req] =
            CacheStore(checkCache[u][req],
                       IF VerifyPermissions(u, rs, req \cup {PROJECT_MANAGE})
                       THEN Allow ELSE Deny, CHECK_TTL)]

PermCacheAfterGate(u, rs, req) ==
    IF req = {} \/ CacheHit(checkCache[u][req]) THEN permCache
    ELSE PermCacheAfterGet(u, rs)

GateLookup(u, req) ==
    IF req = {} THEN "n/a"
    ELSE IF ~CacheHit(checkCache[u][req]) THEN "miss"
    ELSE checkCache[u][req].val

\* A check_permissions that skips the checkers when the gate is answered
\* True from the checkResult cache.
CheckPermissionsOutcomeTrustCachedGate(u, c, rs, target, srcRank) ==
    IF owner = u THEN "allowed"
    ELSE IF GuardConfigs[c].only_owner THEN "denied"
    ELSE IF GateOutcome(u, rs, GuardConfigs[c].perms) = "deny" THEN "denied"
    ELSE IF GateLookup(u, GuardConfigs[c].perms) = Allow THEN "allowed"
    ELSE RunCheckers(GuardConfigs[c].checkers, 1, u, rs, target, srcRank)

\* A check_permissions whose only_owner test lets PROJECT_MANAGE through.
CheckPermissionsOutcomeManageIsOwner(u, c, rs, target, srcRank) ==
    IF owner = u THEN "allowed"
    ELSE IF GuardConfigs[c].only_owner
         THEN (IF GetMemberPermissions(u, rs)[PROJECT_MANAGE] = Allow
               THEN "allowed" ELSE "denied")
    ELSE IF GateOutcome(u, rs, GuardConfigs[c].perms) = "deny" THEN "denied"
    ELSE RunCheckers(GuardConfigs[c].checkers, 1, u, rs, target, srcRank)

\* A check_permissions without the owner's early return.
CheckPermissionsOutcomeNoBypass(u, c, rs, target, srcRank) ==
    IF GuardConfigs[c].only_owner THEN "denied"
    ELSE IF GateOutcome(u, rs, GuardConfigs[c].perms) = "deny" THEN "denied"
    ELSE RunCheckers(GuardConfigs[c].checkers, 1, u, rs, target, srcRank)

\* check_permissions(*perms, project, user_id, only_owner, checkers): the
\* outcome, for the roles the fetch returned.
CheckPermissionsOutcome(u, c, rs, target, srcRank) ==
    IF owner = u THEN "allowed"
    ELSE IF GuardConfigs[c].only_owner THEN "denied"
    ELSE IF GateOutcome(u, rs, GuardConfigs[c].perms) = "deny" THEN "denied"
    ELSE RunCheckers(GuardConfigs[c].checkers, 1, u, rs, target, srcRank)

\* The inputs a decorated operation's checkers load their sources from.
Targets(c, u) ==
    IF \/ UsesChecker(c, "not_owner_target")
       \/ UsesChecker(c, "creator_bypass")
       \/ UsesChecker(c, "compare_users_rank")
    THEN Users ELSE {0}

SrcRanks(c) == IF UsesChecker(c, "rank") THEN 0..MaxRank ELSE {0}

\* require_permissions wrapper: load the sources, then check_permissions.
Guard(u, c) ==
    /\ last.op = "none"
    /\ \E target \in Targets(c, u), srcRank \in SrcRanks(c),
       ord \in RankDescOrders(UserRoleIds(u)) :
        LET rs == FetchUserRoles(u, ord)
            req == GuardConfigs[c].perms
            reads == owner # u /\ ~GuardConfigs[c].only_owner
        IN /\ rolesCache' = IF reads THEN RolesCacheAfterFetch(u, ord) ELSE rolesCache
           /\ permCache' = IF reads THEN PermCacheAfterGate(u, rs, req) ELSE permCache
           /\ checkCache' = IF reads THEN CheckCacheAfterGate(u, rs, req) ELSE checkCache
           /\ last' = [NoCall EXCEPT !.op = "guard", !.user = u, !.owner = owner,
                                     !.cfg = c, !.target = target,
                                     !.srcRank = srcRank,
                                     !.outcome = CheckPermissionsOutcome(u, c, rs, target, srcRank),
                                     !.hit = IF reads THEN GateLookup(u, req) ELSE "n/a",
                                     !.map = GetMemberPermissions(u, rs),
                                     !.roles = IF reads THEN rs ELSE <<>>]
           /\ staticCatalog' = IF reads /\ GateLookup(u, req) = "miss"
                                THEN StaticAfterRead ELSE staticCatalog
           /\ UNCHANGED <<cacheDown, horizon, revokedAt, wrapperState, store, now, changedWhileLive>>

\* A has_more_permissions that forgets that nobody outranks the owner.
HasMorePermissionsResultNoOwnerTarget(u, v) ==
    LET rank(x) == IF AssignedRanks(x) = {} THEN 0 ELSE SetMax(AssignedRanks(x))
    IN owner = u \/ rank(u) > rank(v)

\* services.has_more_permissions(project_id, u, v): ranks of explicit roles
\* only, 0 for a user with none.
HasMorePermissionsResult(u, v) ==
    LET rank(x) == IF AssignedRanks(x) = {} THEN 0 ELSE SetMax(AssignedRanks(x))
    IN IF owner = u THEN TRUE
       ELSE IF owner = v THEN FALSE
       ELSE rank(u) > rank(v)

HasMorePermissions(u, v) ==
    /\ last.op = "none"
    /\ last' = [NoCall EXCEPT !.op = "has_more_permissions", !.user = u,
                              !.owner = owner, !.target = v,
                              !.outcome = IF HasMorePermissionsResult(u, v)
                                          THEN "true" ELSE "false"]
    /\ UNCHANGED <<cacheDown, horizon, revokedAt, wrapperState, store, now, caches, changedWhileLive, staticCatalog>>

\* ------------------------------------------------- requests that mutate
\* Every mutation below is a request of the project owner, whom the guard
\* of the endpoint lets through.  MaxMutations bounds the changes of roles,
\* role permissions and ownership in one behaviour; membership changes are
\* bounded by the sets they range over.
Mutate ==
    /\ last.op = "none"
    /\ mutations < MaxMutations
    /\ mutations' = mutations + 1
    /\ last' = NoCall
    /\ UNCHANGED <<now, caches, catalog, staticCatalog, cacheDown, horizon, isPublic, wrapperState>>

Membership ==
    /\ last.op = "none"
    /\ last' = NoCall
    /\ UNCHANGED <<mutations, now, caches, catalog, staticCatalog, cacheDown, horizon, revokedAt, isPublic, wrapperState>>

\* RoleViewSet.perform_create
CreateRole(rank) ==
    /\ nextRoleId <= MaxRoles
    /\ Mutate
    /\ roles' = roles \cup {nextRoleId}
    /\ roleRank' = [roleRank EXCEPT ![nextRoleId] = rank]
    /\ nextRoleId' = nextRoleId + 1
    /\ UNCHANGED <<revokedAt, changedWhileLive, owner, projMembers, defaultValue, formerOwners, rpRows, rolePerms, memberRoles>>

\* RoleViewSet.perform_update: rank is a writable field of RoleSerializer.
UpdateRole(r, rank) ==
    /\ r \in roles
    /\ roleRank[r] # rank
    /\ Mutate
    /\ roleRank' = [roleRank EXCEPT ![r] = rank]
    /\ UNCHANGED <<revokedAt, changedWhileLive, owner, projMembers, defaultValue, formerOwners, rpRows, nextRoleId, roles, rolePerms, memberRoles>>

\* RoleViewSet.perform_destroy; RolePermission and MemberRole rows cascade.
DeleteRole(r) ==
    /\ r \in roles
    /\ Mutate
    /\ roles' = roles \ {r}
    /\ roleRank' = [roleRank EXCEPT ![r] = EveryoneRank]
    /\ rolePerms' = [rolePerms EXCEPT ![r] = NoPerms]
    /\ memberRoles' = {mr \in memberRoles : mr[1] # r}
    /\ rpRows' = {x \in rpRows : x[1] # r}
    /\ UNCHANGED <<revokedAt, changedWhileLive, owner, projMembers, defaultValue, formerOwners, nextRoleId>>

\* A request body of the batch endpoint: codename -> True, False or None;
\* a codename that is no key of the body is Absent.
Requests == [Perms -> Tri \cup {Absent}]

OneKey(p, v) == [q \in Perms |-> IF q = p THEN v ELSE Absent]

\* A get_permissions_to_update that also keeps the unchanged codenames.
GetPermissionsToUpdateKeepEqual(r, m) ==
    {p \in Perms : m[p] # Absent /\ ~(m[p] = Null /\ <<r, p>> \notin rpRows)}

\* get_permissions_to_update: the codenames of the rows prepared, each with
\* the value m requests.
GetPermissionsToUpdate(r, m) ==
    {p \in Perms : /\ m[p] # Absent
                   /\ ~(m[p] = Null /\ <<r, p>> \notin rpRows)
                   /\ ~(<<r, p>> \in rpRows /\ m[p] = rolePerms[r][p])}

\* bulk_update_permission_roles: upsert of the prepared rows.
RolePermsAfterBulk(r, m, upd) ==
    [rolePerms EXCEPT ![r] = [p \in Perms |-> IF p \in upd THEN m[p] ELSE @[p]]]

RowsAfterBulk(r, upd) == rpRows \cup {<<r, p>> : p \in upd}

\* revokedAt is the instant of the latest batch update that replaced a
\* stored True by another value, and NoRevocation once a later batch update
\* stores a True again.
RevokedAfterBulk(r, m, upd) ==
    IF \E p \in upd : m[p] = Allow THEN NoRevocation
    ELSE IF \E p \in upd : rolePerms[r][p] = Allow THEN now
    ELSE revokedAt

\* RolePermissionsViewSet.batch -> update_role_permissions(role, {p: v})
UpdateRolePermissions(r, p, v) ==
    /\ r \in roles
    /\ GetPermissionsToUpdate(r, OneKey(p, v)) # {}
    /\ Mutate
    /\ rolePerms' = RolePermsAfterBulk(r, OneKey(p, v), GetPermissionsToUpdate(r, OneKey(p, v)))
    /\ rpRows' = RowsAfterBulk(r, GetPermissionsToUpdate(r, OneKey(p, v)))
    /\ changedWhileLive' = changedWhileLive \cup
            {u \in Users : r \in UserRoleIds(u) /\ CacheHit(permCache[u])}
    /\ revokedAt' = RevokedAfterBulk(r, OneKey(p, v), GetPermissionsToUpdate(r, OneKey(p, v)))
    /\ UNCHANGED <<owner, projMembers, defaultValue, formerOwners, nextRoleId, roles, roleRank, memberRoles>>

\* ProjectMemberRoleViewSet.perform_create, after MemberRoleSerializer's
\* validation.
AssignRole(r, u) ==
    /\ r \in roles
    /\ ~IsEveryone(r)
    /\ <<r, u>> \notin memberRoles
    /\ Membership
    /\ memberRoles' = memberRoles \cup {<<r, u>>}
    /\ changedWhileLive' = changedWhileLive \cup
            (IF CacheHit(permCache[u]) THEN {u} ELSE {})
    /\ UNCHANGED <<owner, projMembers, defaultValue, formerOwners, rpRows, nextRoleId, roles, roleRank, rolePerms>>

\* ProjectMemberRoleViewSet.perform_destroy
UnassignRole(r, u) ==
    /\ <<r, u>> \in memberRoles
    /\ Membership
    /\ memberRoles' = memberRoles \ {<<r, u>>}
    /\ changedWhileLive' = changedWhileLive \cup
            (IF CacheHit(permCache[u]) THEN {u} ELSE {})
    /\ UNCHANGED <<owner, projMembers, defaultValue, formerOwners, rpRows, nextRoleId, roles, roleRank, rolePerms>>

\* A validation that accepts any user as the new owner.
ValidNewOwnerIdAnyUser(v) == v \in Users

\* ProjectOwnerSerializer.validate_new_owner_id
ValidNewOwnerId(v) == v \in projMembers

\* ProjectOwnerSerializer.update, after validate_new_owner_id
TransferOwner(v) ==
    /\ ValidNewOwnerId(v)
    /\ v # owner
    /\ Mutate
    /\ owner' = v
    /\ formerOwners' = formerOwners \cup {owner}
    /\ UNCHANGED <<revokedAt, changedWhileLive, projMembers, defaultValue, rpRows, nextRoleId, roles, roleRank, rolePerms, memberRoles>>

\* InvitationViewSet.accept: the invited user becomes a member.
AcceptInvitation(u) ==
    /\ u \notin projMembers
    /\ Membership
    /\ projMembers' = projMembers \cup {u}
    /\ UNCHANGED <<changedWhileLive, owner, defaultValue, formerOwners, rpRows, nextRoleId, roles, roleRank, rolePerms, memberRoles>>

\* ----------------------------------------------------------------- time
\* Five minutes pass; the cache backend drops the entries that expired.
Purge(entry, empty) == IF now + 1 < entry.exp THEN entry ELSE NoEntry(empty)

Tick ==
    /\ last.op = "none"
    /\ now < horizon
    /\ now' = now + 1
    /\ rolesCache' = [u \in Users |-> Purge(rolesCache[u], <<>>)]
    /\ permCache' = [u \in Users |-> Purge(permCache[u], NoPerms)]
    /\ checkCache' = [u \in Users |-> [s \in ReqSets |-> Purge(checkCache[u][s], Deny)]]
    /\ last' = NoCall
    /\ UNCHANGED <<cacheDown, horizon, revokedAt, wrapperState, store, changedWhileLive, staticCatalog>>

\* The response of the latest read request has been delivered; the next
\* request is taken.
Respond ==
    /\ last.op # "none"
    /\ last' = IF last.op = "resolve"
               THEN [NoCall EXCEPT !.prevUser = last.user, !.prevMap = last.map]
               ELSE NoCall
    /\ UNCHANGED <<cacheDown, horizon, revokedAt, wrapperState, store, now, caches, changedWhileLive, staticCatalog>>

Next ==
    \/ \E u \in Users : Resolve(u)
    \/ \E u \in Users, p \in Perms : HasPermission(u, p)
    \/ \E u \in Users, c \in Configs : Guard(u, c)
    \/ \E u, v \in Users : HasMorePermissions(u, v)
    \/ \E rank \in RankValues : CreateRole(rank)
    \/ \E r \in RoleIds, rank \in RankValues : UpdateRole(r, rank)
    \/ \E r \in RoleIds : DeleteRole(r)
    \/ \E r \in RoleIds, p \in Perms, v \in Tri : UpdateRolePermissions(r, p, v)
    \/ \E r \in RoleIds, u \in Users : AssignRole(r, u)
    \/ \E r \in RoleIds, u \in Users : UnassignRole(r, u)
    \/ \E v \in Users : TransferOwner(v)
    \/ \E u \in Users : AcceptInvitation(u)
    \/ Tick
    \/ Respond

Spec == Init /\ [][Next]_vars

\* ------------------------------------------- the resolver on drawn stores
\* The stores the mutating requests above can build, drawn directly: any
\* role may have any rank the serializer accepts, the everyone role may have
\* been re-ranked or deleted, at most MaxOverrides RolePermission values are
\* set, one user holds explicit roles.  The caches are empty, so the first
\* read computes from the store.
Overrides(rp) == Cardinality({x \in RoleIds \X Perms : rp[x[1]][x[2]] # Null})

StoreRanks ==
    {f \in [RoleIds -> 0..StoreMaxRank] : \A r \in RoleIds \ {EveryoneId} : f[r] >= 1}

InitStore ==
    /\ owner = 1
    /\ projMembers = Users
    /\ defaultValue \in [Perms -> {Allow, Deny}]
    /\ nextRoleId = MaxRoles + 1
    /\ roles \in {RoleIds, RoleIds \ {EveryoneId}}
    /\ roleRank \in {f \in StoreRanks : EveryoneId \notin roles => f[EveryoneId] = EveryoneRank}
    /\ rolePerms \in {rp \in [RoleIds -> [Perms -> Tri]] :
                        /\ Overrides(rp) <= MaxOverrides
                        /\ EveryoneId \notin roles => rp[EveryoneId] = NoPerms}
    /\ \E u \in Users, S \in SUBSET (RoleIds \ {EveryoneId}) :
            memberRoles = S \X {u}
    /\ mutations = 0
    /\ now = 0
    /\ rolesCache = [u \in Users |-> NoEntry(<<>>)]
    /\ permCache = [u \in Users |-> NoEntry(NoPerms)]
    /\ checkCache = [u \in Users |-> [s \in ReqSets |-> NoEntry(Deny)]]
    /\ last = NoCall
    /\ changedWhileLive = {}
    /\ catalog = Perms
    /\ staticCatalog = NotLoaded
    /\ formerOwners = {}
    /\ cacheDown = FALSE
    /\ horizon = MaxTime
    /\ revokedAt = NoRevocation
    /\ rpRows = StoredRows
    /\ isPublic = TRUE
    /\ checkerSource = Ellipsis
    /\ calls = [t \in Threads |-> NoRequest]

\* One read request on the drawn store.
NextStore ==
    \/ \E u \in Users : Resolve(u)
    \/ \E u \in Users, p \in Perms : HasPermission(u, p)

SpecStore == InitStore /\ [][NextStore]_vars

\* ------------------------------------------------- the catalog growing
\* A project whose catalog does not hold every codename yet: the everyone
\* role and one role with a drawn PROJECT_MANAGE value, held by user 2.
InitCatalog ==
    /\ owner = 1
    /\ projMembers = Users
    /\ defaultValue \in [Perms -> {Allow, Deny}]
    /\ nextRoleId = EveryoneId + 2
    /\ roles = {EveryoneId, EveryoneId + 1}
    /\ roleRank = [r \in RoleIds |-> IF r = EveryoneId + 1 THEN 1 ELSE EveryoneRank]
    /\ \E v \in Tri :
          rolePerms = [r \in RoleIds |->
                         IF r = EveryoneId + 1
                         THEN [NoPerms EXCEPT ![PROJECT_MANAGE] = v] ELSE NoPerms]
    /\ memberRoles = {<<EveryoneId + 1, 2>>}
    /\ mutations = 0
    /\ now = 0
    /\ rolesCache = [u \in Users |-> NoEntry(<<>>)]
    /\ permCache = [u \in Users |-> NoEntry(NoPerms)]
    /\ checkCache = [u \in Users |-> [s \in ReqSets |-> NoEntry(Deny)]]
    /\ last = NoCall
    /\ changedWhileLive = {}
    /\ catalog = {PROJECT_MANAGE}
    /\ staticCatalog = NotLoaded
    /\ formerOwners = {}
    /\ cacheDown = FALSE
    /\ horizon = MaxTime
    /\ revokedAt = NoRevocation
    /\ rpRows = StoredRows
    /\ isPublic = TRUE
    /\ checkerSource = Ellipsis
    /\ calls = [t \in Threads |-> NoRequest]

\* A Permission row is added (a data migration, the admin site).
AddPermission(p) ==
    /\ last.op = "none"
    /\ p \notin catalog
    /\ catalog' = catalog \cup {p}
    /\ last' = NoCall
    /\ UNCHANGED <<owner, projMembers, defaultValue, nextRoleId, roles, roleRank,
                   rolePerms, memberRoles, mutations, formerOwners, rpRows, now, caches,
                   changedWhileLive, staticCatalog, cacheDown, horizon, revokedAt, isPublic, wrapperState>>

NextCatalog ==
    \/ \E p \in Perms : AddPermission(p)
    \/ \E u \in Users : Resolve(u)
    \/ Tick
    \/ Respond

SpecCatalog == InitCatalog /\ [][NextCatalog]_vars

\* ------------------------------------- calls of one operation interleaved
\* The operation whose calls are followed step by step: its one checker is
\* a RankChecker.
SharedOperation == 5

\* wrapper, line 70, in thread t: _load_checkers_sources stores the source
\* of this call's input in the checker instance; when the getter raises,
\* nothing is stored and the call ends with ValueError.
LoadCheckersSources(t, u, srcRank, loads) ==
    /\ calls[t].pc = "idle"
    /\ calls' = [calls EXCEPT ![t] =
                    IF loads
                    THEN [NoRequest EXCEPT !.pc = "loaded", !.user = u, !.input = srcRank]
                    ELSE [NoRequest EXCEPT !.pc = "done", !.user = u,
                                           !.outcome = "value_error"]]
    /\ checkerSource' = IF loads THEN srcRank ELSE checkerSource
    /\ UNCHANGED <<cacheDown, horizon, revokedAt, store, now, caches, changedWhileLive, staticCatalog, last>>

\* wrapper, lines 71-77, in thread t: check_permissions, whose checker reads
\* the source the instance holds now.
CheckPermissions(t) ==
    /\ calls[t].pc = "loaded"
    /\ \E ord \in RankDescOrders(UserRoleIds(calls[t].user)) :
        LET u == calls[t].user
            rs == FetchUserRoles(u, ord)
            req == GuardConfigs[SharedOperation].perms
            reads == owner # u /\ ~GuardConfigs[SharedOperation].only_owner
        IN /\ rolesCache' = IF reads THEN RolesCacheAfterFetch(u, ord) ELSE rolesCache
           /\ permCache' = IF reads THEN PermCacheAfterGate(u, rs, req) ELSE permCache
           /\ checkCache' = IF reads THEN CheckCacheAfterGate(u, rs, req) ELSE checkCache
           /\ staticCatalog' = IF reads /\ GateLookup(u, req) = "miss"
                                THEN StaticAfterRead ELSE staticCatalog
           /\ calls' = [calls EXCEPT ![t].pc = "checked",
                                     ![t].used = IF reads /\ GateOutcome(u, rs, req) # "deny"
                                                 THEN checkerSource ELSE Ellipsis,
                                     ![t].outcome = CheckPermissionsOutcome(
                                         u, SharedOperation, rs, 0, checkerSource)]
    /\ UNCHANGED <<cacheDown, horizon, revokedAt, store, now, changedWhileLive, checkerSource, last>>

\* A wrapper that invokes the view method whatever check_permissions did.
AfterCheckAlwaysRuns(outcome) == "view_method"

\* Where the wrapper goes after check_permissions: on to line 78 when it
\* returned, out of the wrapper when it raised.
AfterCheck(outcome) == IF outcome = "allowed" THEN "view_method" ELSE "raised"

\* wrapper, line 78, in thread t: the wrapped view method is invoked.
ViewMethod(t) ==
    /\ calls[t].pc = "checked"
    /\ AfterCheck(calls[t].outcome) = "view_method"
    /\ calls' = [calls EXCEPT ![t].pc = "done", ![t].ran = TRUE]
    /\ UNCHANGED <<cacheDown, horizon, revokedAt, store, now, caches, changedWhileLive, staticCatalog,
                   checkerSource, last>>

\* The exception check_permissions raised leaves the wrapper.
Raised(t) ==
    /\ calls[t].pc = "checked"
    /\ AfterCheck(calls[t].outcome) = "raised"
    /\ calls' = [calls EXCEPT ![t].pc = "done"]
    /\ UNCHANGED <<cacheDown, horizon, revokedAt, store, now, caches, changedWhileLive, staticCatalog,
                   checkerSource, last>>

\* The call has ended and the thread takes the next request.
ReturnResponse(t) ==
    /\ calls[t].pc = "done"
    /\ calls' = [calls EXCEPT ![t] = NoRequest]
    /\ UNCHANGED <<cacheDown, horizon, revokedAt, store, now, caches, changedWhileLive, staticCatalog,
                   checkerSource, last>>

\* A project in which user 2 holds a role of rank 1.
InitConcurrent ==
    /\ owner = 1
    /\ projMembers = Users
    /\ defaultValue = [p \in Perms |-> Deny]
    /\ nextRoleId = EveryoneId + 2
    /\ roles = {EveryoneId, EveryoneId + 1}
    /\ roleRank = [r \in RoleIds |-> IF r = EveryoneId + 1 THEN 1 ELSE EveryoneRank]
    /\ rolePerms = [r \in RoleIds |-> NoPerms]
    /\ memberRoles = {<<EveryoneId + 1, 2>>}
    /\ mutations = 0
    /\ now = 0
    /\ rolesCache = [u \in Users |-> NoEntry(<<>>)]
    /\ permCache = [u \in Users |-> NoEntry(NoPerms)]
    /\ checkCache = [u \in Users |-> [s \in ReqSets |-> NoEntry(Deny)]]
    /\ last = NoCall
    /\ changedWhileLive = {}
    /\ catalog = Perms
    /\ staticCatalog = NotLoaded
    /\ formerOwners = {}
    /\ cacheDown = FALSE
    /\ horizon = MaxTime
    /\ revokedAt = NoRevocation
    /\ rpRows = {}
    /\ isPublic = FALSE
    /\ checkerSource = Ellipsis
    /\ calls = [t \in Threads |-> NoRequest]

NextConcurrent ==
    \/ \E t \in Threads, u \in Users, srcRank \in 0..MaxRank, loads \in BOOLEAN :
            LoadCheckersSources(t, u, srcRank, loads)
    \/ \E t \in Threads : CheckPermissions(t)
    \/ \E t \in Threads : ViewMethod(t)
    \/ \E t \in Threads : Raised(t)
    \/ \E t \in Threads : ReturnResponse(t)

SpecConcurrent == InitConcurrent /\ [][NextConcurrent]_vars

\* ------------------------------------------- access to the project
\* The project modelled has id ProjectId; NoPk is a URL keyword argument
\* that is missing (or falsy), StrangePk the id of no project.
ProjectId == 1
NoPk == 0
StrangePk == 2
Pks == {NoPk, ProjectId, StrangePk}

Methods == {"GET", "HEAD", "OPTIONS", "POST", "PUT", "PATCH", "DELETE"}
SAFE_METHODS == {"GET", "HEAD", "OPTIONS"}

\* A ProjectAccessPermission that lets every member write.
ProjectAccessMembersWrite(u, method, projectPk, pk) ==
    LET id == IF projectPk # NoPk THEN projectPk ELSE pk
    IN IF id # ProjectId THEN FALSE
       ELSE (isPublic /\ method \in SAFE_METHODS) \/ u \in projMembers

\* ProjectAccessPermission.has_permission
ProjectAccess(u, method, projectPk, pk) ==
    LET id == IF projectPk # NoPk THEN projectPk ELSE pk
    IN IF id = NoPk THEN FALSE
       ELSE IF method \notin SAFE_METHODS THEN id = ProjectId /\ owner = u
       ELSE IF id # ProjectId THEN FALSE
       ELSE IF isPublic THEN TRUE
       ELSE u \in projMembers

\* A request of user u that reaches ProjectAccessPermission.
CheckAccess(u, method, projectPk, pk) ==
    /\ last.op = "none"
    /\ last' = [NoCall EXCEPT !.op = "access", !.user = u, !.owner = owner,
                              !.method = method, !.projectPk = projectPk, !.pk = pk,
                              !.outcome = IF ProjectAccess(u, method, projectPk, pk)
                                          THEN "true" ELSE "false"]
    /\ UNCHANGED <<cacheDown, horizon, revokedAt, wrapperState, store, now, caches, changedWhileLive, staticCatalog>>

\* ProjectViewSet.leave, a POST behind ProjectAccessPermission.
LeaveOutcome(u) ==
    IF ~ProjectAccess(u, "POST", NoPk, ProjectId) THEN "denied"
    ELSE IF owner = u THEN "forbidden"
    ELSE IF u \notin projMembers THEN "error"
    ELSE "left"

Leave(u) ==
    /\ last.op = "none"
    /\ last' = [NoCall EXCEPT !.op = "leave", !.user = u, !.owner = owner,
                              !.method = "POST", !.pk = ProjectId,
                              !.outcome = LeaveOutcome(u)]
    /\ projMembers' = IF LeaveOutcome(u) = "left" THEN projMembers \ {u} ELSE projMembers
    /\ UNCHANGED <<owner, defaultValue, nextRoleId, roles, roleRank, rolePerms,
                   memberRoles, mutations, catalog, formerOwners, rpRows, isPublic,
                   cacheDown, horizon, revokedAt, wrapperState, now, caches, changedWhileLive,
                   staticCatalog>>

\* ProjectMemberViewSet.perform_destroy, a request of the owner: the owner
\* is protected, and the requester is told to use leave.
RemoveMember(u) ==
    /\ u \in projMembers
    /\ owner # u
    /\ Membership
    /\ projMembers' = projMembers \ {u}
    /\ UNCHANGED <<changedWhileLive, owner, defaultValue, formerOwners, rpRows, nextRoleId, roles, roleRank, rolePerms, memberRoles>>

\* ProjectViewSet.update: is_public is a writable field of ProjectSerializer.
UpdateProject(public) ==
    /\ last.op = "none"
    /\ isPublic # public
    /\ isPublic' = public
    /\ last' = NoCall
    /\ UNCHANGED <<owner, projMembers, defaultValue, nextRoleId, roles, roleRank,
                   rolePerms, memberRoles, mutations, catalog, formerOwners, rpRows,
                   cacheDown, horizon, revokedAt, wrapperState, now, caches, changedWhileLive,
                   staticCatalog>>

\* The project as created: add_owner_as_member has made the owner a member.
InitProject ==
    /\ owner = 1
    /\ projMembers = {1}
    /\ defaultValue = [p \in Perms |-> Deny]
    /\ nextRoleId = EveryoneId + 1
    /\ roles = {EveryoneId}
    /\ roleRank = [r \in RoleIds |-> EveryoneRank]
    /\ rolePerms = [r \in RoleIds |-> NoPerms]
    /\ memberRoles = {}
    /\ mutations = 0
    /\ now = 0
    /\ rolesCache = [u \in Users |-> NoEntry(<<>>)]
    /\ permCache = [u \in Users |-> NoEntry(NoPerms)]
    /\ checkCache = [u \in Users |-> [s \in ReqSets |-> NoEntry(Deny)]]
    /\ last = NoCall
    /\ changedWhileLive = {}
    /\ catalog = Perms
    /\ staticCatalog = NotLoaded
    /\ formerOwners = {}
    /\ cacheDown = FALSE
    /\ horizon = MaxTime
    /\ revokedAt = NoRevocation
    /\ rpRows = {}
    /\ isPublic \in BOOLEAN
    /\ checkerSource = Ellipsis
    /\ calls = [t \in Threads |-> NoRequest]

NextProject ==
    \/ \E u \in Users, method \in Methods, projectPk \in Pks, pk \in Pks :
            CheckAccess(u, method, projectPk, pk)
    \/ \E u \in Users : AcceptInvitation(u)
    \/ \E u \in Users : Leave(u)
    \/ \E u \in Users : RemoveMember(u)
    \/ \E v \in Users : TransferOwner(v)
    \/ \E public \in BOOLEAN : UpdateProject(public)
    \/ Respond

SpecProject == InitProject /\ [][NextProject]_vars

\* ------------------------------------------ batch updates of one role
\* RolePermissionsViewSet.batch with any body, its response recorded; the
\* next request may follow at once.
Batch(r, m) ==
    /\ r \in roles
    /\ LET upd == GetPermissionsToUpdate(r, m)
       IN /\ rolePerms' = RolePermsAfterBulk(r, m, upd)
          /\ rpRows' = RowsAfterBulk(r, upd)
          /\ last' = [NoCall EXCEPT !.op = "batch", !.user = owner, !.owner = owner,
                                    !.role = r, !.request = m, !.updated = upd,
                                    !.repeat = /\ last.op = "batch"
                                               /\ last.role = r
                                               /\ last.request = m]
          /\ changedWhileLive' = IF upd = {} THEN changedWhileLive
                                 ELSE changedWhileLive \cup
                                        {u \in Users : r \in UserRoleIds(u) /\ CacheHit(permCache[u])}
          /\ revokedAt' = RevokedAfterBulk(r, m, upd)
    /\ UNCHANGED <<owner, projMembers, defaultValue, formerOwners, nextRoleId, roles,
                   roleRank, memberRoles, mutations, now, caches, catalog,
                   staticCatalog, cacheDown, horizon, isPublic, wrapperState>>

\* A project with the everyone role and one more role; that role has any
\* RolePermission rows, the value of a row being True, False or None.
InitBulk ==
    /\ owner = 1
    /\ projMembers = Users
    /\ defaultValue = [p \in Perms |-> Deny]
    /\ nextRoleId = EveryoneId + 2
    /\ roles = {EveryoneId, EveryoneId + 1}
    /\ roleRank = [r \in RoleIds |-> IF r = EveryoneId + 1 THEN 1 ELSE EveryoneRank]
    /\ \E vals \in [Perms -> Tri] :
          rolePerms = [r \in RoleIds |-> IF r = EveryoneId + 1 THEN vals ELSE NoPerms]
    /\ \E S \in SUBSET ({EveryoneId + 1} \X Perms) : rpRows = StoredRows \cup S
    /\ isPublic = TRUE
    /\ checkerSource = Ellipsis
    /\ calls = [t \in Threads |-> NoRequest]
    /\ memberRoles = {<<EveryoneId + 1, 2>>}
    /\ mutations = 0
    /\ now = 0
    /\ rolesCache = [u \in Users |-> NoEntry(<<>>)]
    /\ permCache = [u \in Users |-> NoEntry(NoPerms)]
    /\ checkCache = [u \in Users |-> [s \in ReqSets |-> NoEntry(Deny)]]
    /\ last = NoCall
    /\ changedWhileLive = {}
    /\ catalog = Perms
    /\ staticCatalog = NotLoaded
    /\ formerOwners = {}
    /\ cacheDown = FALSE
    /\ horizon = MaxTime
    /\ revokedAt = NoRevocation

NextBulk == \E r \in RoleIds, m \in Requests : Batch(r, m)

SpecBulk == InitBulk /\ [][NextBulk]_vars

\* ------------------------------------------- the cache backend unreachable
\* The project as created, served while every cache get and set fails.
InitOutage ==
    /\ owner = 1
    /\ projMembers = {1}
    /\ defaultValue \in [Perms -> {Allow, Deny}]
    /\ nextRoleId = EveryoneId + 1
    /\ roles = {EveryoneId}
    /\ roleRank = [r \in RoleIds |-> EveryoneRank]
    /\ rolePerms = [r \in RoleIds |-> NoPerms]
    /\ memberRoles = {}
    /\ mutations = 0
    /\ now = 0
    /\ rolesCache = [u \in Users |-> NoEntry(<<>>)]
    /\ permCache = [u \in Users |-> NoEntry(NoPerms)]
    /\ checkCache = [u \in Users |-> [s \in ReqSets |-> NoEntry(Deny)]]
    /\ last = NoCall
    /\ changedWhileLive = {}
    /\ catalog = Perms
    /\ staticCatalog = NotLoaded
    /\ formerOwners = {}
    /\ cacheDown = TRUE
    /\ horizon = MaxTime
    /\ revokedAt = NoRevocation
    /\ rpRows = StoredRows
    /\ isPublic = TRUE
    /\ checkerSource = Ellipsis
    /\ calls = [t \in Threads |-> NoRequest]

SpecOutage == InitOutage /\ [][Next]_vars

\* ------------------------------------------- a grant and its revocation
\* A project whose member 2 holds one role above everyone, which grants
\* ROLE_MANAGE; the deployment is followed for longer than the three TTLs
\* together.
InitStale ==
    /\ owner = 1
    /\ projMembers = Users
    /\ defaultValue = [p \in Perms |-> Deny]
    /\ nextRoleId = EveryoneId + 2
    /\ roles = {EveryoneId, EveryoneId + 1}
    /\ roleRank = [r \in RoleIds |-> IF r = EveryoneId + 1 THEN 1 ELSE EveryoneRank]
    /\ rolePerms = [r \in RoleIds |->
                      IF r = EveryoneId + 1 THEN [NoPerms EXCEPT ![ROLE_MANAGE] = Allow]
                      ELSE NoPerms]
    /\ memberRoles = {<<EveryoneId + 1, 2>>}
    /\ mutations = 0
    /\ now = 0
    /\ rolesCache = [u \in Users |-> NoEntry(<<>>)]
    /\ permCache = [u \in Users |-> NoEntry(NoPerms)]
    /\ checkCache = [u \in Users |-> [s \in ReqSets |-> NoEntry(Deny)]]
    /\ last = NoCall
    /\ changedWhileLive = {}
    /\ catalog = Perms
    /\ staticCatalog = NotLoaded
    /\ formerOwners = {}
    /\ cacheDown = FALSE
    /\ horizon = MaxStaleTime
    /\ revokedAt = NoRevocation
    /\ rpRows = StoredRows
    /\ isPublic = TRUE
    /\ checkerSource = Ellipsis
    /\ calls = [t \in Threads |-> NoRequest]

\* Guarded calls of the operation that requires ROLE_MANAGE, resolutions,
\* and batch updates of the ROLE_MANAGE row of the granting role.
NextStale ==
    \/ \E u \in Users : Guard(u, 1)
    \/ \E u \in Users : Resolve(u)
    \/ \E v \in Tri : UpdateRolePermissions(EveryoneId + 1, ROLE_MANAGE, v)
    \/ Tick
    \/ Respond

SpecStale == InitStale /\ [][NextStale]_vars

\* =============================================================== claims
Req(c) == GuardConfigs[c].perms

IsGuardBy(nonOwner) ==
    /\ last.op = "guard"
    /\ (last.user # last.owner) = nonOwner

\* The explicit and implicit roles of the caller of the latest request.
CallerRoles == UserRoleIds(last.user)

\* The maps the store as it is now resolves to for user u.
StoreMaps(u) == {UncachedPermissions(u, ord) : ord \in RankDescOrders(UserRoleIds(u))}

\* C1: a guard call by a non-owner with a non-empty required set is denied
\* whenever the caller's resolved map has neither a required codename nor
\* PROJECT_MANAGE true, on a checkResult miss as on a hit.
C1_GuardDenial ==
    (/\ IsGuardBy(TRUE)
     /\ Req(last.cfg) # {}
     /\ ~HasAnyPermission(last.map, Req(last.cfg) \cup {PROJECT_MANAGE}))
        => last.outcome = "denied"

\* C2: a guard call by the current owner is allowed, whatever only_owner,
\* the required permissions, the checkers and the caches are.
C2_OwnerBypass == IsGuardBy(FALSE) => last.outcome = "allowed"

\* The owner is let through an operation for which a Deny verdict, cached
\* while the caller was not yet the owner, is still live.
C2_Witness ==
    /\ IsGuardBy(FALSE)
    /\ Req(last.cfg) # {}
    /\ CacheHit(checkCache[last.user][Req(last.cfg)])
    /\ checkCache[last.user][Req(last.cfg)].val = Deny
    /\ last.outcome = "allowed"

\* C3: has_permission(P, owner, X) is true for every X, and the owner's
\* resolved map is all true, whatever the roles set.
C3_OwnerOmnipotence ==
    /\ (last.op = "has_permission" /\ last.user = last.owner) => last.outcome = "true"
    /\ (last.op = "resolve" /\ last.user = last.owner) => last.map = AllTrue

\* The owner holds a role that sets X to false, nothing grants X or
\* PROJECT_MANAGE, and has_permission still answers true.
C3_Witness ==
    /\ last.op = "has_permission"
    /\ last.user = last.owner
    /\ \E r \in roles : /\ <<r, last.user>> \in memberRoles
                        /\ rolePerms[r][last.perm] = Deny
    /\ last.map[last.perm] = Deny
    /\ last.map[PROJECT_MANAGE] # Allow
    /\ last.outcome = "true"

\* C4: when a non-owner holds two roles that set opposite values for X, the
\* resolved X is the value of the higher-ranked of the two (no role of the
\* caller ranked as high or higher sets X).
C4_RankPrecedence ==
    (last.op = "resolve" /\ last.user # last.owner) =>
        \A p \in Perms : \A a, b \in CallerRoles :
            (/\ rolePerms[a][p] # Null
             /\ rolePerms[b][p] # Null
             /\ rolePerms[a][p] # rolePerms[b][p]
             /\ roleRank[a] > roleRank[b]
             /\ \A c \in CallerRoles \ {a} :
                    rolePerms[c][p] # Null => roleRank[c] < roleRank[a])
                => last.map[p] = rolePerms[a][p]

\* C5: a role of the caller that abstains on Y never masks a lower-ranked
\* role's value for Y: the resolved Y is the value of the highest-ranked
\* role of the caller that sets Y.
C5_NullTransparency ==
    (last.op = "resolve" /\ last.user # last.owner) =>
        \A p \in Perms : \A a, b \in CallerRoles :
            (/\ rolePerms[a][p] = Null
             /\ rolePerms[b][p] # Null
             /\ roleRank[a] > roleRank[b]
             /\ \A c \in CallerRoles \ {b} :
                    rolePerms[c][p] # Null => roleRank[c] < roleRank[b])
                => last.map[p] = rolePerms[b][p]

\* C6: for a non-owner with no explicit role, the resolved map has no null
\* entry and equals the catalog defaults.
C6_EveryoneCoverage ==
    (/\ last.op = "resolve"
     /\ last.user # last.owner
     /\ \A r \in roles : <<r, last.user>> \notin memberRoles)
        => \A p \in Perms : last.map[p] # Null /\ last.map[p] = defaultValue[p]

\* C7 as claimed: if PROJECT_MANAGE resolves true for a non-owner, then
\* has_permission is true for every codename and the permission gate of the
\* guard passes for every non-empty required set.
C7_ManageAllAsClaimed ==
    /\ (last.op = "has_permission" /\ last.user # last.owner
            /\ last.map[PROJECT_MANAGE] = Allow) => last.outcome = "true"
    /\ (IsGuardBy(TRUE) /\ ~GuardConfigs[last.cfg].only_owner /\ Req(last.cfg) # {}
            /\ last.map[PROJECT_MANAGE] = Allow) => last.hit # Deny

\* C7 amended: has_permission as claimed; the gate passes, and records
\* Allow, on every call that finds no live checkResult entry.
C7_ManageAll ==
    /\ (last.op = "has_permission" /\ last.user # last.owner
            /\ last.map[PROJECT_MANAGE] = Allow) => last.outcome = "true"
    /\ (IsGuardBy(TRUE) /\ ~GuardConfigs[last.cfg].only_owner /\ Req(last.cfg) # {}
            /\ last.map[PROJECT_MANAGE] = Allow /\ last.hit = "miss")
          => /\ CacheHit(checkCache[last.user][Req(last.cfg)])
             /\ checkCache[last.user][Req(last.cfg)].val = Allow

\* PROJECT_MANAGE resolves true, the required codename resolves false, the
\* gate finds no entry and records Allow.
C7_Witness ==
    /\ IsGuardBy(TRUE)
    /\ Req(last.cfg) # {}
    /\ last.hit = "miss"
    /\ last.map[PROJECT_MANAGE] = Allow
    /\ \A p \in Req(last.cfg) : last.map[p] = Deny
    /\ checkCache[last.user][Req(last.cfg)].val = Allow

\* C8 as claimed: after a change of the caller's roles made while the
\* caller's permissionMap entry was live, the first resolve that finds the
\* entry expired returns the map of the store as changed.
C8_StalenessAsClaimed ==
    (/\ last.op = "resolve"
     /\ last.user # last.owner
     /\ last.pending
     /\ last.permHit = "miss")
        => last.map \in StoreMaps(last.user)

\* C8 amended: the first resolve that finds neither a live permissionMap
\* entry nor a live roles entry returns the map of the store as changed.
C8_Staleness ==
    (/\ last.op = "resolve"
     /\ last.user # last.owner
     /\ last.permHit = "miss"
     /\ last.rolesHit = "miss")
        => last.map \in StoreMaps(last.user)

\* A change made while the entry was live has become visible: both entries
\* had expired when the caller resolved.
C8_Witness ==
    /\ last.op = "resolve"
    /\ last.user # last.owner
    /\ last.pending
    /\ last.permHit = "miss"
    /\ last.rolesHit = "miss"
    /\ now >= ROLES_TTL
    /\ last.map \in StoreMaps(last.user)

\* C9: when a stop_on_success checker (CreatorBypassChecker, first in the
\* chain, caller = source) passes, the rest of the chain is skipped and the
\* call is allowed even if a later checker would fail.
C9_StopOnSuccess ==
    (/\ IsGuardBy(TRUE)
     /\ Len(GuardConfigs[last.cfg].checkers) > 0
     /\ GuardConfigs[last.cfg].checkers[1] = "creator_bypass"
     /\ last.user = last.target
     /\ last.hit # Deny)
        => last.outcome = "allowed"

\* C10: for a non-owner caller NotOwnerTargetChecker fails, and the guard
\* denies, exactly when the target is the project owner.
C10_NotOwnerTarget ==
    (/\ IsGuardBy(TRUE)
     /\ GuardConfigs[last.cfg].checkers = <<"not_owner_target">>
     /\ Req(last.cfg) = {}
     /\ ~GuardConfigs[last.cfg].only_owner)
        => (last.outcome = "denied" <=> last.target = last.owner)

\* The checker chain of the latest guard call.
Chain == GuardConfigs[last.cfg].checkers

\* C11: RankChecker passes exactly when some role handed to it (the
\* caller's roles, the everyone role included) ranks strictly above the
\* source rank; with the highest rank equal to the source it fails.
C11_RankCheckerStrict ==
    (IsGuardBy(TRUE) /\ Chain = <<"rank">> /\ Req(last.cfg) = {})
        => (last.outcome = "allowed"
              <=> \E i \in 1..Len(last.roles) : last.roles[i].rank > last.srcRank)

\* The caller's highest rank is positive and equals the source rank, and
\* the guard denies.
C11_Witness ==
    /\ IsGuardBy(TRUE)
    /\ Chain = <<"rank">>
    /\ last.srcRank > 0
    /\ \E i \in 1..Len(last.roles) : last.roles[i].rank = last.srcRank
    /\ \A i \in 1..Len(last.roles) : last.roles[i].rank <= last.srcRank
    /\ last.outcome = "denied"

\* C12: with the project owner as target and a non-owner caller,
\* CompareUsersRankChecker fails (the guard denies) whatever rank the caller
\* holds, and has_more_permissions answers false for the same pair.
C12_OwnerTargetOutranksAll ==
    /\ (IsGuardBy(TRUE) /\ Chain = <<"compare_users_rank">>
            /\ last.target = last.owner) => last.outcome = "denied"
    /\ (last.op = "has_more_permissions" /\ last.user # last.owner
            /\ last.target = last.owner) => last.outcome = "false"

\* A caller holding a role of the highest rank is denied against the owner,
\* who holds no role at all.
C12_Witness ==
    /\ IsGuardBy(TRUE)
    /\ Chain = <<"compare_users_rank">>
    /\ last.target = last.owner
    /\ \E i \in 1..Len(last.roles) : last.roles[i].rank = MaxRank
    /\ AssignedRanks(last.owner) = {}
    /\ last.outcome = "denied"

\* What the i-th checker of the latest guard call answers on that call's
\* inputs.
Answer(i) == CheckerCall(Chain[i], last.user, last.roles, last.target, last.srcRank)

C14_OwnerOnly ==
    [][(/\ last'.op = "guard"
        /\ last'.user # last'.owner
        /\ GuardConfigs[last'.cfg].only_owner)
          => (last'.outcome = "denied" /\ UNCHANGED caches)]_vars

\* A non-owner whose PROJECT_MANAGE resolves true is denied by only_owner
\* and no entry exists for the caller in any cache.
C14_Witness ==
    /\ IsGuardBy(TRUE)
    /\ GuardConfigs[last.cfg].only_owner
    /\ last.map[PROJECT_MANAGE] = Allow
    /\ last.outcome = "denied"
    /\ ~CacheHit(rolesCache[last.user])
    /\ ~CacheHit(permCache[last.user])
    /\ \A s \in ReqSets : ~CacheHit(checkCache[last.user][s])

\* C15: with no checkers attached the guard allows a non-owner whenever a
\* codename of the required set resolves true, and does not allow one for
\* whom neither a required codename nor PROJECT_MANAGE resolves true.
C15_OrSemantics ==
    (IsGuardBy(TRUE) /\ Req(last.cfg) # {} /\ Chain = <<>>) =>
        /\ HasAnyPermission(last.map, Req(last.cfg)) => last.outcome = "allowed"
        /\ last.outcome = "allowed"
             => HasAnyPermission(last.map, Req(last.cfg) \cup {PROJECT_MANAGE})

\* C16: when the project has no everyone role, a resolve and a guard call
\* by a non-owner that compute from the store end in a configuration error
\* and leave no map with a null entry in the permissionMap cache.
C16_MissingEveryoneIsError ==
    (/\ last.op \in {"resolve", "guard"}
     /\ last.user # last.owner
     /\ last.op = "guard" => (Req(last.cfg) # {} /\ last.hit = "miss")
     /\ last.op = "resolve" => last.permHit = "miss"
     /\ \A i \in 1..Len(last.roles) : ~last.roles[i].is_everyone)
        => /\ last.outcome = "config_error"
           /\ \A p \in Perms : permCache[last.user].val[p] # Null
                                 \/ ~CacheHit(permCache[last.user])

\* C17: the project has its everyone role, that role has rank 0 and no
\* MemberRole row.
C17_EveryoneBootstrap ==
    /\ EveryoneId \in roles
    /\ roleRank[EveryoneId] = EveryoneRank
    /\ \A u \in Users : <<EveryoneId, u>> \notin memberRoles

\* C18: once a permission is in the catalog, a resolve by a non-owner that
\* computes from the store (no live cached map or role list) returns it
\* with its default_value as long as no role sets it.
C18_CatalogGrowth ==
    (/\ last.op = "resolve"
     /\ last.user # last.owner
     /\ last.permHit = "miss"
     /\ last.rolesHit = "miss")
        => \A p \in catalog :
              (\A r \in roles : rolePerms[r][p] = Null) => last.map[p] = defaultValue[p]

\* The caller of the latest request owned the project once and no longer
\* does.
ByFormerOwner == last.user \in formerOwners /\ last.user # last.owner

\* Some role of the project, or the catalog default, grants p.
Granted(p) == defaultValue[p] = Allow \/ \E r \in roles : rolePerms[r][p] = Allow

ByRankThenId(S) ==
    CHOOSE s \in RankDescOrders(S) :
        \A i, j \in 1..Cardinality(S) :
            (i < j /\ roleRank[s[i]] = roleRank[s[j]]) => s[i] < s[j]

\* C20: the role list fetched from the store for a user is the user's
\* assigned roles plus the everyone role in rank-descending order with ties
\* broken by role id, so the map resolved from it is the one that order
\* gives.
C20_DeterministicOrder ==
    (/\ last.op = "resolve"
     /\ last.user # last.owner
     /\ last.rolesHit = "miss"
     /\ last.permHit = "miss")
        => /\ [i \in 1..Len(last.roles) |-> last.roles[i].id]
                = ByRankThenId(UserRoleIds(last.user))
           /\ last.map = ComputePermissions(
                            QueryUserRoles(last.user, ByRankThenId(UserRoleIds(last.user))))

\* The maps permissions.py computes from the store as it is now for user u.
DirectMaps(u) ==
    {ComputePermissions(QueryUserRoles(u, ord)) : ord \in RankDescOrders(UserRoleIds(u))}

\* C21: while the cache backend is unreachable, a resolve by a non-owner
\* returns a map computed directly from the store, and a guard call with a
\* required set decides by that map: it is allowed only if a required
\* codename or PROJECT_MANAGE is true in it.
C21_CacheUnavailable ==
    cacheDown =>
        /\ (last.op = "resolve" /\ last.user # last.owner)
              => last.map \in DirectMaps(last.user)
        /\ (IsGuardBy(TRUE) /\ ~GuardConfigs[last.cfg].only_owner /\ Req(last.cfg) # {})
              => /\ last.map \in DirectMaps(last.user)
                 /\ last.outcome = "allowed"
                      => HasAnyPermission(last.map, Req(last.cfg) \cup {PROJECT_MANAGE})

\* C22: a resolve answered immediately after a resolve for the same user
\* (no mutation, no other request and no passage of time in between)
\* returns the map the first returned; for a non-owner it is served from the
\* permissionMap cache.
C22_Idempotence ==
    (last.op = "resolve" /\ last.prevUser = last.user)
        => /\ last.map = last.prevMap
           /\ last.user # last.owner => last.permHit = "hit"

\* The second of two resolves in succession by a non-owner is served from
\* the cache a map holding a value a role of the caller set.
C22_Witness ==
    /\ last.op = "resolve"
    /\ last.prevUser = last.user
    /\ last.user # last.owner
    /\ last.permHit = "hit"
    /\ last.map = last.prevMap
    /\ \E p \in Perms : last.map[p] # defaultValue[p]

\* C23: the rows a batch update prepares are exactly the requested
\* codenames whose requested value differs from the stored one, a None
\* requested for a codename without a row excepted; a batch update repeated
\* with the same body on the same role returns no row and changes no row.
C23_MinimalBulkUpdate ==
    [][last'.op = "batch" =>
        /\ last'.updated =
              {p \in Perms :
                  /\ last'.request[p] # Absent
                  /\ IF <<last'.role, p>> \in rpRows
                     THEN last'.request[p] # rolePerms[last'.role][p]
                     ELSE last'.request[p] # Null}
        /\ last'.repeat =>
              (last'.updated = {} /\ rolePerms' = rolePerms /\ rpRows' = rpRows)]_vars

\* A body that sets one codename, unsets a stored one and asks None for a
\* codename without a row is applied a second time and returns nothing.
C23_Witness ==
    /\ last.op = "batch"
    /\ last.repeat
    /\ last.updated = {}
    /\ \E p \in Perms : last.request[p] = Null /\ <<last.role, p>> \in rpRows
    /\ \E p \in Perms : last.request[p] = Allow

\* The project id a request names: project_pk, or pk when there is none.
NamedId == IF last.projectPk # NoPk THEN last.projectPk ELSE last.pk

\* C24: ProjectAccessPermission grants an unsafe method exactly to the
\* owner of the project named, and a safe method exactly when the project
\* named exists and is public or the requester is a member; a request that
\* names no project or a project that does not exist is denied.
C24_ProjectAccess ==
    last.op = "access" =>
        /\ last.method \notin SAFE_METHODS
              => (last.outcome = "true" <=> (NamedId = ProjectId /\ last.user = owner))
        /\ last.method \in SAFE_METHODS
              => (last.outcome = "true"
                    <=> (NamedId = ProjectId /\ (isPublic \/ last.user \in projMembers)))
        /\ NamedId \in {NoPk, StrangePk} => last.outcome = "false"

\* A member who is not the owner reads a private project and is refused a
\* write to it.
C24_Witness ==
    /\ last.op = "access"
    /\ ~isPublic
    /\ last.user \in projMembers
    /\ last.user # owner
    /\ last.method = "DELETE"
    /\ NamedId = ProjectId
    /\ last.outcome = "false"
    /\ ProjectAccess(last.user, "GET", last.projectPk, last.pk)

\* C25: the owner of the project has a ProjectMember row, from creation on
\* and after every accept, leave, member removal and ownership transfer.
C25_OwnerIsMember == owner \in projMembers

\* Ownership has been transferred and the former owner removed from the
\* members; the new owner has asked to leave and been refused.
C25_Witness ==
    /\ formerOwners # {}
    /\ formerOwners \cap projMembers = {}
    /\ owner \in projMembers
    /\ last.op = "leave"
    /\ last.user = owner
    /\ last.outcome = "forbidden"

\* C26: the checker of every call evaluates the source loaded from that
\* call's own input, whatever other call of the operation is in flight, so
\* the call is decided as it would be alone.
C26_SourceIsolation ==
    \A t \in Threads :
        (calls[t].pc \in {"checked", "done"} /\ calls[t].user # owner
            /\ calls[t].outcome # "value_error") =>
            /\ calls[t].used = calls[t].input
            /\ calls[t].outcome = "allowed"
                  <=> \E r \in UserRoleIds(calls[t].user) : roleRank[r] > calls[t].input

\* C29: the wrapped view method is invoked only in a call in which
\* check_permissions has returned, and in every such call once it has
\* ended; a call whose source failed to load ends with ValueError with
\* neither check_permissions nor the view method run, and a call denied or
\* failed in check_permissions ends without the view method run.
C29_RunsOnlyAfterAllow ==
    \A t \in Threads :
        /\ calls[t].ran => calls[t].outcome = "allowed"
        /\ calls[t].pc = "done" => (calls[t].ran <=> calls[t].outcome = "allowed")
        /\ calls[t].outcome = "value_error"
              => (~calls[t].ran /\ calls[t].used = Ellipsis /\ calls[t].pc = "done")

\* One call has run its view method while another, denied by the checker,
\* has ended without.
C29_Witness ==
    \E t, s \in Threads :
        /\ calls[t].pc = "done" /\ calls[t].ran
        /\ calls[t].user # owner
        /\ calls[s].pc = "done" /\ ~calls[s].ran /\ calls[s].outcome = "denied"

\* The caller of the latest request has no grant of a codename of ps in
\* the store as it is now.
NoGrantInStore(ps) ==
    \A m \in StoreMaps(last.user) : ~HasAnyPermission(m, ps)

\* C27: once a grant has been revoked by a batch update and not granted
\* again, every guard call the non-owner makes more than 60 minutes
\* (CHECK_TTL) after the revocation is denied by the permission gate.
C27_StalenessBound ==
    (/\ IsGuardBy(TRUE)
     /\ Req(last.cfg) # {}
     /\ revokedAt # NoRevocation
     /\ now > revokedAt + CHECK_TTL
     /\ NoGrantInStore(Req(last.cfg) \cup {PROJECT_MANAGE}))
    => last.outcome = "denied"

\* The same bound for the calls the gate answers from a live checkResult
\* entry alone.
C27_StalenessBoundOnHit ==
    (/\ IsGuardBy(TRUE)
     /\ Req(last.cfg) # {}
     /\ revokedAt # NoRevocation
     /\ now > revokedAt + CHECK_TTL
     /\ last.hit # "miss"
     /\ NoGrantInStore(Req(last.cfg) \cup {PROJECT_MANAGE}))
    => last.outcome = "denied"

\* C28: a guard call whose checker is CompareUsersRankChecker, made by a
\* non-owner about a non-owner target that has no explicitly assigned
\* role, is answered without an error: it is allowed exactly when the
\* caller's highest rank is above the everyone rank, which is also what
\* has_more_permissions answers for the pair.
C28_CompareUsersRankTotal ==
    (/\ IsGuardBy(TRUE)
     /\ UsesChecker(last.cfg, "compare_users_rank")
     /\ last.target # last.owner
     /\ AssignedRanks(last.target) = {})
    => /\ last.outcome \in {"allowed", "denied"}
       /\ (last.outcome = "allowed") <=> (GetUserRank(last.roles) > EveryoneRank)
       /\ (last.outcome = "allowed") <=> HasMorePermissionsResult(last.user, last.target)

\* C30: the map permissions.get_member_permissions returns for a non-owner
\* when it finds neither a roles entry nor a permissionMap entry is the map
\* services.get_member_permissions returns for the same user on the same
\* store, whatever list its own query returns.
C30_ResolversAgree ==
    (/\ last.op = "resolve"
     /\ last.user # last.owner
     /\ last.rolesHit = "miss"
     /\ last.permHit = "miss")
    => \A m \in StoreMaps(last.user) : last.map = m

====
